---- MODULE Spec2Model ----
(***************************************************************************)
(* Model of src/app.py: the cached read of the "Tweets" worksheet          *)
(* (get_sheets_data), the presentation request (index), the vote and tie   *)
(* requests and the admin report over the "Votes" worksheet.               *)
(*                                                                         *)
(* Requests may be served by several threads of one process (Flask's       *)
(* development server is threaded); _cache and _cache_time are module      *)
(* globals, so get_sheets_data is modelled one global access per step.     *)
(* vote, tie and admin touch shared state once (one worksheet call), so    *)
(* each is one step.                                                       *)
(***************************************************************************)
EXTENDS Integers, Sequences, FiniteSets, TLC

VARIABLES
    cache,       \* _cache: the dict {} or {'tweet_lookup':.., 'tweet_ids':..}
    cache_time,  \* _cache_time
    now,         \* time.time()
    tweets,      \* rows of worksheet "Tweets" as get_all_records returns them
    votes,       \* rows of worksheet "Votes" below the header
    votesCols,   \* header of worksheet "Votes"
    threaded,    \* whether the server handles requests concurrently
    th,          \* per request thread: position, locals, bookkeeping
    prev,        \* bookkeeping: the last completed get_sheets_data call
    last         \* the last vote, tie or admin request and its response

vars == <<cache, cache_time, now, tweets, votes, votesCols, threaded, th, prev, last>>

----------------------------------------------------------------------------
(* Program constant and model bounds *)

CACHE_DURATION == 300

StartTime == 1000       \* the clock at start-up
TickUnit == 150         \* seconds per step of the clock
MaxTicks == 2           \* how far the clock runs
MaxVotes == 2           \* rows the vote and tie requests append
MaxLog == 3             \* rows of a Votes worksheet that admin finds

Threads == {"t1", "t2"}

----------------------------------------------------------------------------
(* Cells and rows of the Tweets worksheet.  A cell is <<kind, content>>:   *)
(* an integer cell carries its decimal digits, a text cell its characters. *)

Int7 == <<"int", <<"7">>>>
StrA == <<"str", <<"A">>>>

TextX == <<"str", <<" ", "x">>>>
TextY == <<"str", <<"y", " ">>>>

RowA == <<Int7, TextX>>
RowB == <<StrA, TextY>>
RowC == <<Int7, TextY>>      \* the id of RowA again

SeqsUpTo(S, n) == UNION {[1..k -> S] : k \in 0..n}

\* The contents the Tweets worksheet takes: empty, one row, two rows with
\* different ids, two rows with the same id, and a header of three columns.
TweetSheets ==
    {<<>>, <<RowA>>, <<RowA, RowB>>, <<RowA, RowC>>, <<<<StrA, TextY, TextY>>>>}

----------------------------------------------------------------------------
(* Data shaping of get_sheets_data, lines 62-68 *)

\* df['id'].astype(str): an integer becomes its decimal digits, a string
\* stays itself; the kind of the cell is lost.
AsStr(cell) == cell[2]

RECURSIVE LStrip(_)
LStrip(s) == IF s # <<>> /\ Head(s) = " " THEN LStrip(Tail(s)) ELSE s

RECURSIVE RStrip(_)
RStrip(s) ==
    IF s # <<>> /\ s[Len(s)] = " " THEN RStrip(SubSeq(s, 1, Len(s) - 1)) ELSE s

\* df['text'].str.strip()
Strip(cell) == RStrip(LStrip(cell[2]))

\* df.columns = ['id', 'text'] raises unless the frame has two columns.
TwoColumns(data) == \A i \in DOMAIN data : Len(data[i]) = 2

\* df['id'].tolist()
TweetIds(data) == [i \in DOMAIN data |-> AsStr(data[i][1])]

\* pd.Series(df.text.values, index=df.id).to_dict(): a later row with the
\* same id overwrites an earlier one.
TweetLookup(data) ==
    LET ids == {AsStr(data[i][1]) : i \in DOMAIN data}
        lastRow(id) == CHOOSE i \in DOMAIN data :
                          /\ AsStr(data[i][1]) = id
                          /\ \A j \in DOMAIN data : AsStr(data[j][1]) = id => j <= i
    IN  [id \in ids |-> Strip(data[lastRow(id)][2])]

EmptyLookup == [id \in {} |-> <<>>]

----------------------------------------------------------------------------
(* The module globals, lines 13-14 *)

\* _cache = {}
NoCache == [filled |-> FALSE, tweet_lookup |-> EmptyLookup, tweet_ids |-> <<>>]

\* _cache = {'tweet_lookup': tweet_lookup, 'tweet_ids': tweet_ids}
MkCache(lookup, ids) == [filled |-> TRUE, tweet_lookup |-> lookup, tweet_ids |-> ids]

\* bool(_cache): a dict is true when it has a key.
Truthy(c) == c.filled

\* time.time() - _cache_time < CACHE_DURATION, line 43
Fresh_le(t, ct) == t - ct <= CACHE_DURATION
Fresh(t, ct) == t - ct < CACHE_DURATION

----------------------------------------------------------------------------
(* Request threads *)

NotFound == <<"Tweet text not found.">>

NoResp == [kind |-> "none", id1 |-> <<>>, id2 |-> <<>>, text1 |-> <<>>, text2 |-> <<>>]

\* A thread between requests.  how, decided and at are bookkeeping of the
\* get_sheets_data call: how it returned, what line 43 decided, and (where
\* requests run one at a time) the clock when line 43 ran.
IdleThread ==
    [pc |-> "idle", t43 |-> 0, tweet_lookup |-> EmptyLookup, tweet_ids |-> <<>>,
     how |-> "", decided |-> "", at |-> 0, resp |-> NoResp]

\* Bookkeeping, kept where requests run one at a time: the get_sheets_data
\* call of the presentation request that ended last.
NoPrev == [valid |-> FALSE, at |-> 0, how |-> "", tweet_lookup |-> EmptyLookup,
           tweet_ids |-> <<>>]

\* ok: the worksheet call of the request (append_row, get_all_records) was
\* reached and did not raise.
NoLast == [op |-> "none", a |-> "", b |-> "", ok |-> FALSE, resp |-> "",
           scores |-> <<>>, pairwise_wins |-> <<>>]

Others == <<cache, cache_time, now, tweets, votes, votesCols, threaded, prev, last>>

\* A server that is not threaded takes one request at a time.
Free == threaded \/ \A u \in Threads : th[u].pc = "idle"

\* index is entered, lines 80-82.
Begin(t) ==
    /\ th[t].pc = "idle"
    /\ Free
    /\ th' = [th EXCEPT ![t] = [IdleThread EXCEPT !.pc = "l43"]]
    /\ UNCHANGED Others

\* Line 43, left operand and the call of time.time(): _cache is read; when it
\* is empty the right operand is not evaluated.
L43(t) ==
    /\ th[t].pc = "l43"
    /\ LET at == IF threaded THEN 0 ELSE now IN
       IF Truthy(cache)
       THEN th' = [th EXCEPT ![t].pc = "l43c", ![t].t43 = now, ![t].at = at]
       ELSE th' = [th EXCEPT ![t].pc = "l48", ![t].decided = "empty", ![t].at = at]
    /\ UNCHANGED Others

\* Line 43, right operand: _cache_time is read and compared.
L43c(t) ==
    /\ th[t].pc = "l43c"
    /\ IF Fresh(th[t].t43, cache_time)
       THEN th' = [th EXCEPT ![t].pc = "l45a", ![t].decided = "fresh", ![t].t43 = 0]
       ELSE th' = [th EXCEPT ![t].pc = "l48", ![t].decided = "stale", ![t].t43 = 0]
    /\ UNCHANGED Others

\* _cache.get(key, default)
CacheGet(c, key, default) == IF c.filled THEN c[key] ELSE default

\* Line 45, first element of the tuple: _cache is read.
L45a(t) ==
    /\ th[t].pc = "l45a"
    /\ th' = [th EXCEPT ![t].pc = "l45b",
                        ![t].tweet_lookup = CacheGet(cache, "tweet_lookup", EmptyLookup)]
    /\ UNCHANGED Others

\* Line 45, second element of the tuple: _cache is read again; return.
L45b(t) ==
    /\ th[t].pc = "l45b"
    /\ th' = [th EXCEPT ![t].pc = "l84", ![t].how = "cache",
                        ![t].tweet_ids = CacheGet(cache, "tweet_ids", <<>>)]
    /\ UNCHANGED Others

\* return {}, [] of lines 51, 60 and 77
ReturnEmpty_reset(t, how) ==
    /\ th' = [th EXCEPT ![t].pc = "l84", ![t].how = how,
                        ![t].tweet_lookup = EmptyLookup, ![t].tweet_ids = <<>>]
    /\ cache' = NoCache
    /\ cache_time' = 0
    /\ UNCHANGED <<now, tweets, votes, votesCols, threaded, prev, last>>

ReturnEmpty(t, how) ==
    /\ th' = [th EXCEPT ![t].pc = "l84", ![t].how = how,
                        ![t].tweet_lookup = EmptyLookup, ![t].tweet_ids = <<>>]
    /\ UNCHANGED Others

\* Lines 48-68: the client, the worksheet read and the data shaping.  The
\* client may be missing (line 49), the calls of line 55 and 57 may raise,
\* the worksheet may be empty (line 58) and the shaping may raise (line 63).
L48(t) ==
    /\ th[t].pc = "l48"
    /\ \E outcome \in {"noclient", "raise", "read"} :
          IF outcome # "read" THEN ReturnEmpty(t, "failed")
          ELSE IF tweets = <<>> THEN ReturnEmpty(t, "nodata")
          ELSE IF ~TwoColumns(tweets) THEN ReturnEmpty(t, "failed")
          ELSE /\ th' = [th EXCEPT ![t].pc = "l71",
                                   ![t].tweet_lookup = TweetLookup(tweets),
                                   ![t].tweet_ids = TweetIds(tweets)]
               /\ UNCHANGED Others

\* Line 71
\* (The dict was updated in place, one key: _cache['tweet_ids'] = tweet_ids.)
L71_in_place(t) ==
    /\ th[t].pc = "l71"
    /\ cache' = MkCache(cache.tweet_lookup, th[t].tweet_ids)
    /\ th' = [th EXCEPT ![t].pc = "l72"]
    /\ UNCHANGED <<cache_time, now, tweets, votes, votesCols, threaded, prev, last>>

L71(t) ==
    /\ th[t].pc = "l71"
    /\ cache' = MkCache(th[t].tweet_lookup, th[t].tweet_ids)
    /\ th' = [th EXCEPT ![t].pc = "l72"]
    /\ UNCHANGED <<cache_time, now, tweets, votes, votesCols, threaded, prev, last>>

\* Lines 72-74
L72(t) ==
    /\ th[t].pc = "l72"
    /\ cache_time' = now
    /\ th' = [th EXCEPT ![t].pc = "l84", ![t].how = "fetched"]
    /\ UNCHANGED <<cache, now, tweets, votes, votesCols, threaded, prev, last>>

----------------------------------------------------------------------------
(* index, lines 84-91 *)

\* len(tweet_ids) < 2, line 84
NotEnough_one(ids) == Len(ids) < 1
NotEnough(ids) == Len(ids) < 2

\* random.sample(tweet_ids, 2): the elements at two different positions;
\* there is none when the list has fewer than two elements (ValueError).
SamplePairs(ids) ==
    {<<ids[p[1]], ids[p[2]]>> : p \in {q \in (DOMAIN ids) \X (DOMAIN ids) : q[1] # q[2]}}

\* tweet_lookup.get(id, "Tweet text not found.")
LookupGet(lookup, id) == IF id \in DOMAIN lookup THEN lookup[id] ELSE NotFound

\* The response of lines 84-91 for one draw of random.sample.
Insufficient == [NoResp EXCEPT !.kind = "insufficient"]
Crash == [NoResp EXCEPT !.kind = "crash"]
Pair(lookup, p) ==
    [kind |-> "pair", id1 |-> p[1], id2 |-> p[2],
     text1 |-> LookupGet(lookup, p[1]), text2 |-> LookupGet(lookup, p[2])]

Responses(lookup, ids) ==
    IF NotEnough(ids) THEN {Insufficient}
    ELSE IF SamplePairs(ids) = {} THEN {Crash}
    ELSE {Pair(lookup, p) : p \in SamplePairs(ids)}

\* Lines 84-90: the response is decided.
L84(t) ==
    /\ th[t].pc = "l84"
    /\ \E r \in Responses(th[t].tweet_lookup, th[t].tweet_ids) :
          th' = [th EXCEPT ![t].pc = "l91", ![t].resp = r]
    /\ UNCHANGED Others

\* Lines 86 and 91: the response is returned and the thread is free again.
L91(t) ==
    /\ th[t].pc = "l91"
    /\ th' = [th EXCEPT ![t] = IdleThread]
    /\ prev' = IF threaded THEN prev
               ELSE [valid |-> TRUE, at |-> th[t].at, how |-> th[t].how,
                     tweet_lookup |-> th[t].tweet_lookup,
                     tweet_ids |-> th[t].tweet_ids]
    /\ UNCHANGED <<cache, cache_time, now, tweets, votes, votesCols, threaded, last>>

----------------------------------------------------------------------------
(* The environment: the clock and the editors of the Tweets worksheet *)

Tick ==
    /\ now < StartTime + MaxTicks * TickUnit
    /\ now' = now + TickUnit
    /\ UNCHANGED <<cache, cache_time, tweets, votes, votesCols, threaded, th, prev, last>>

EditTweets ==
    /\ tweets' \in TweetSheets \ {tweets}
    /\ UNCHANGED <<cache, cache_time, now, votes, votesCols, threaded, th, prev, last>>

----------------------------------------------------------------------------
(* vote and tie, lines 98-128 *)

\* Strings a form field can carry.
VoteIds == {"A", "B", "tie"}

\* [winner_id, loser_id, winner_id], line 108
WinRow_loser(winner_id, loser_id) == <<winner_id, loser_id, loser_id>>
WinRow(winner_id, loser_id) == <<winner_id, loser_id, winner_id>>

\* [tweet1_id, tweet2_id, 'tie'], line 124
TieRow(tweet1_id, tweet2_id) == <<tweet1_id, tweet2_id, "tie">>

\* redirect(url_for('index')), lines 112 and 128: the same whatever happened
\* to the append.
Redirect(outcome) == "redirect:index"

\* (The row was inserted above the others: insert_row(row, 2).)
Vote_on_top(winner_id, loser_id) ==
    /\ Free
    /\ \E outcome \in {"noclient", "raise", "ok"} :
          /\ outcome = "ok" => Len(votes) < MaxVotes
          /\ votes' = IF outcome = "ok" THEN <<WinRow(winner_id, loser_id)>> \o votes
                      ELSE votes
          /\ last' = [NoLast EXCEPT !.op = "vote", !.a = winner_id, !.b = loser_id,
                                    !.ok = (outcome = "ok"),
                                    !.resp = Redirect(outcome)]
    /\ UNCHANGED <<cache, cache_time, now, tweets, votesCols, threaded, th, prev>>

\* Lines 103-112.  The client may be missing (line 104) and the calls of line
\* 106 and 108 may raise (line 109); the response is built after either.
Vote(winner_id, loser_id) ==
    /\ Free
    /\ \E outcome \in {"noclient", "raise", "ok"} :
          /\ outcome = "ok" => Len(votes) < MaxVotes
          /\ votes' = IF outcome = "ok" THEN Append(votes, WinRow(winner_id, loser_id))
                      ELSE votes
          /\ last' = [NoLast EXCEPT !.op = "vote", !.a = winner_id, !.b = loser_id,
                                    !.ok = (outcome = "ok"),
                                    !.resp = Redirect(outcome)]
    /\ UNCHANGED <<cache, cache_time, now, tweets, votesCols, threaded, th, prev>>

\* Lines 119-128
Tie(tweet1_id, tweet2_id) ==
    /\ Free
    /\ \E outcome \in {"noclient", "raise", "ok"} :
          /\ outcome = "ok" => Len(votes) < MaxVotes
          /\ votes' = IF outcome = "ok" THEN Append(votes, TieRow(tweet1_id, tweet2_id))
                      ELSE votes
          /\ last' = [NoLast EXCEPT !.op = "tie", !.a = tweet1_id, !.b = tweet2_id,
                                    !.ok = (outcome = "ok"),
                                    !.resp = Redirect(outcome)]
    /\ UNCHANGED <<cache, cache_time, now, tweets, votesCols, threaded, th, prev>>

----------------------------------------------------------------------------
(* admin, lines 130-159.  A row of the Votes worksheet is <<id1, id2,       *)
(* result>> by position; get_all_records names the fields by the header,   *)
(* so a field is there only when the header has its column.                *)

AllCols == {"id1", "id2", "result"}

\* votes_df[votes_df['result'] != 'tie'], line 142
RECURSIVE WinsOf(_)
WinsOf(rows) ==
    IF rows = <<>> THEN <<>>
    ELSE IF Head(rows)[3] # "tie" THEN <<Head(rows)>> \o WinsOf(Tail(rows))
    ELSE WinsOf(Tail(rows))

\* One more occurrence of key in a list of <<key, count>>, new keys last.
Bump(counts, key) ==
    IF \E i \in DOMAIN counts : counts[i][1] = key
    THEN [i \in DOMAIN counts |->
            IF counts[i][1] = key THEN <<key, counts[i][2] + 1>> ELSE counts[i]]
    ELSE Append(counts, <<key, 1>>)

RECURSIVE Tally(_, _)
Tally(rows, counts) ==
    IF rows = <<>> THEN counts ELSE Tally(Tail(rows), Bump(counts, Head(rows)[3]))

\* Stable insertion of item into a list ordered by count, largest first.
RECURSIVE InsertDesc_asc(_, _)
InsertDesc_asc(sorted, item) ==
    IF sorted = <<>> THEN <<item>>
    ELSE IF Head(sorted)[2] <= item[2] THEN <<Head(sorted)>> \o InsertDesc_asc(Tail(sorted), item)
    ELSE <<item>> \o sorted

RECURSIVE InsertDesc(_, _)
InsertDesc(sorted, item) ==
    IF sorted = <<>> THEN <<item>>
    ELSE IF Head(sorted)[2] >= item[2] THEN <<Head(sorted)>> \o InsertDesc(Tail(sorted), item)
    ELSE <<item>> \o sorted

RECURSIVE SortDesc(_)
SortDesc(items) ==
    IF items = <<>> THEN <<>>
    ELSE InsertDesc(SortDesc(SubSeq(items, 1, Len(items) - 1)), items[Len(items)])

\* wins_df['result'].value_counts().to_dict(), line 143: the count of each
\* value, largest first, equal counts in order of first appearance.
ValueCounts(wins) == SortDesc(Tally(wins, <<>>))

\* row['id1'] if row['id2'] == winner else row['id2'], line 149
Loser_swapped(row, winner) == IF row[2] = winner THEN row[2] ELSE row[1]
Loser(row, winner) == IF row[2] = winner THEN row[1] ELSE row[2]

\* Line 149 raises KeyError when a field it reads is missing.
LoserRaises(row, winner, cols) ==
    \/ "id2" \notin cols
    \/ row[2] = winner /\ "id1" \notin cols

\* Lines 150-152
AddWin_overwrite(pw, winner, loser) ==
    IF winner \in DOMAIN pw THEN [pw EXCEPT ![winner] = <<loser>>]
    ELSE pw @@ (winner :> <<loser>>)

AddWin(pw, winner, loser) ==
    IF winner \in DOMAIN pw THEN [pw EXCEPT ![winner] = Append(@, loser)]
    ELSE pw @@ (winner :> <<loser>>)

\* The loop of lines 147-152; a KeyError leaves it with what it has built.
RECURSIVE PairwiseLoop(_, _, _)
PairwiseLoop(wins, cols, pw) ==
    IF wins = <<>> THEN pw
    ELSE LET row == Head(wins)
             winner == row[3]
         IN  IF LoserRaises(row, winner, cols) THEN pw
             ELSE PairwiseLoop(Tail(wins), cols, AddWin(pw, winner, Loser(row, winner)))

NoPairwise == [w \in {} |-> <<>>]

\* Lines 132-155: scores and pairwise_wins after the try block, given the rows
\* read and the header.
\* (The scores were the header row read as a row: get_all_values.)
Scores_with_header(rows, cols) ==
    ValueCounts(WinsOf(<<<<"id1", "id2", "result">>>> \o rows))

Scores(rows, cols) ==
    IF rows = <<>> \/ "result" \notin cols THEN <<>> ELSE ValueCounts(WinsOf(rows))

PairwiseWins(rows, cols) ==
    IF rows = <<>> \/ "result" \notin cols THEN NoPairwise
    ELSE PairwiseLoop(WinsOf(rows), cols, NoPairwise)

\* sorted(scores.items(), key=lambda x: x[1], reverse=True), line 157
SortedTweets(scores) == SortDesc(scores)

\* (The rows were removed once read: sheet.clear().)
Admin_clearing ==
    /\ Free
    /\ \E outcome \in {"noclient", "raise", "read"} :
          LET rows == IF outcome = "read" THEN votes ELSE <<>> IN
          /\ last' = [NoLast EXCEPT !.op = "admin", !.resp = "admin.html",
                                    !.ok = (outcome = "read"),
                                    !.scores = SortedTweets(Scores(rows, votesCols)),
                                    !.pairwise_wins = PairwiseWins(rows, votesCols)]
          /\ votes' = IF outcome = "read" THEN <<>> ELSE votes
    /\ UNCHANGED <<cache, cache_time, now, tweets, votesCols, threaded, th, prev>>

\* Lines 132-159.  The client may be missing (line 134) and the calls of line
\* 136 and 137 may raise (line 154).
Admin ==
    /\ Free
    /\ \E outcome \in {"noclient", "raise", "read"} :
          LET rows == IF outcome = "read" THEN votes ELSE <<>> IN
          last' = [NoLast EXCEPT !.op = "admin", !.resp = "admin.html",
                                 !.ok = (outcome = "read"),
                                 !.scores = SortedTweets(Scores(rows, votesCols)),
                                 !.pairwise_wins = PairwiseWins(rows, votesCols)]
    /\ UNCHANGED <<cache, cache_time, now, tweets, votes, votesCols, threaded, th, prev>>

----------------------------------------------------------------------------
(* The whole program *)

Init ==
    /\ cache = NoCache
    /\ cache_time = 0
    /\ now = StartTime
    /\ tweets \in TweetSheets
    /\ votes = <<>>
    /\ votesCols = AllCols
    /\ threaded \in BOOLEAN
    /\ th = [t \in Threads |-> IdleThread]
    /\ prev = NoPrev
    /\ last = NoLast

Request(t) ==
    \/ Begin(t) \/ L43(t) \/ L43c(t) \/ L45a(t) \/ L45b(t)
    \/ L48(t) \/ L71(t) \/ L72(t) \/ L84(t) \/ L91(t)

\* The four request kinds together, while the clock runs.  The forms carry
\* the ids of one pair shown, and the Tweets worksheet keeps the content it
\* starts with: no row, one row or two rows.
FormWinners == {"A"}
FormLosers == {"B"}
FewSheets == {<<>>, <<RowA>>, <<RowA, RowB>>}

InitFew == Init /\ tweets \in FewSheets

Next ==
    \/ \E t \in Threads : Request(t)
    \/ Tick
    \/ \E w \in FormWinners, l \in FormLosers : Vote(w, l)
    \/ \E a \in FormWinners, b \in FormLosers : Tie(a, b)
    \/ Admin

Spec == InitFew /\ [][Next]_vars

\* The cached read alone: the request threads, the clock and the editors.
NextCache ==
    \/ \E t \in Threads : Request(t)
    \/ Tick
    \/ EditTweets

SpecCache == Init /\ [][NextCache]_vars

\* The vote, tie and report requests alone, on a new Votes worksheet.
NextVotes ==
    \/ \E w, l \in VoteIds : Vote(w, l)
    \/ \E a, b \in VoteIds : Tie(a, b)
    \/ Admin

InitVotes == Init /\ tweets = <<>> /\ threaded

SpecVotes == InitVotes /\ [][NextVotes]_vars

\* Vote requests followed by reports, on a new Votes worksheet: every row of
\* the worksheet was appended by line 108.
NextRound ==
    \/ \E w, l \in VoteIds : Vote(w, l)
    \/ Admin

SpecRound == InitVotes /\ [][NextRound]_vars

\* The report over a Votes worksheet that already has rows.  Every row has a
\* result that is its id1, its id2 or 'tie'; the header may lack a column.
LogRows == {r \in VoteIds \X VoteIds \X VoteIds : r[3] \in {r[1], r[2], "tie"}}

ExampleLog == <<<<"A", "B", "A">>, <<"A", "C", "A">>, <<"B", "C", "tie">>, <<"C", "A", "C">>>>

Headers == {AllCols} \cup {AllCols \ {c} : c \in AllCols}

InitAgg ==
    /\ cache = NoCache
    /\ cache_time = 0
    /\ now = StartTime
    /\ tweets = <<>>
    /\ votes \in SeqsUpTo(LogRows, MaxLog) \cup {ExampleLog}
    /\ votesCols \in Headers
    /\ threaded = TRUE
    /\ th = [t \in Threads |-> IdleThread]
    /\ prev = NoPrev
    /\ last = NoLast

NextAgg == Admin

SpecAgg == InitAgg /\ [][NextAgg]_vars

----------------------------------------------------------------------------
(* Properties of the cached read, checked under SpecCache *)

Range(seq) == {seq[i] : i \in DOMAIN seq}

\* C1: a get_sheets_data call takes the cached data only when the cache is
\* filled and the age it computed at line 43 (the clock it read minus the
\* _cache_time it read) is at most CACHE_DURATION; when the cache is empty or
\* that age is CACHE_DURATION or more it goes on to the fetch of line 48; and
\* a call that has returned took the cached data exactly when line 43 found
\* the cache fresh, and otherwise returned from the fetch.
C1_FreshOrFetched ==
    [][\A t \in Threads :
          /\ (th[t].pc = "l43" /\ th'[t] # th[t] /\ ~Truthy(cache))
                => th'[t].pc = "l48"
          /\ (th[t].pc = "l43c" /\ th'[t] # th[t] /\ th[t].t43 - cache_time >= CACHE_DURATION)
                => th'[t].pc = "l48"
          /\ (th[t].pc # "l45a" /\ th'[t].pc = "l45a")
                => /\ Truthy(cache)
                   /\ th[t].t43 - cache_time <= CACHE_DURATION
                   /\ th'[t].decided = "fresh"
          /\ (th'[t].pc = "l84" /\ th'[t].how = "cache")
                => th'[t].decided = "fresh"
          /\ (th'[t].pc = "l84" /\ th'[t].decided # "fresh")
                => /\ th'[t].how \in {"fetched", "failed", "nodata"}
                   /\ th[t].pc \in {"l48", "l72", "l84"}
      ]_vars

\* C1 witness: one call has returned the cached data while another, which
\* found the snapshot stale, has returned from its fetch.
C1_Witness ==
    \E t, u \in Threads :
        /\ th[t].pc = "l84" /\ th[t].how = "cache"
        /\ th[u].pc = "l84" /\ th[u].decided = "stale" /\ th[u].how = "fetched"

\* C2: where requests run one at a time, a get_sheets_data call that does not
\* fail, made less than CACHE_DURATION after a call that fetched without
\* failure (rows or no rows), returns what that call returned and takes it
\* from the cache.
C2_SecondCallCached ==
    \A t \in Threads :
        (/\ ~threaded
         /\ th[t].pc = "l84"
         /\ prev.valid
         /\ prev.how \in {"fetched", "nodata"}
         /\ th[t].how # "failed"
         /\ th[t].at - prev.at < CACHE_DURATION)
        => /\ th[t].how = "cache"
           /\ th[t].tweet_lookup = prev.tweet_lookup
           /\ th[t].tweet_ids = prev.tweet_ids

\* C2, for a first call that fetched at least one row.
C2_SecondCallCachedNonEmpty ==
    \A t \in Threads :
        (/\ ~threaded
         /\ th[t].pc = "l84"
         /\ prev.valid
         /\ prev.how = "fetched"
         /\ th[t].at - prev.at < CACHE_DURATION)
        => /\ th[t].how = "cache"
           /\ th[t].tweet_lookup = prev.tweet_lookup
           /\ th[t].tweet_ids = prev.tweet_ids

\* The lookup and the id list of one fetch, or the empty pair.
OneSnapshot(lookup, ids) ==
    \/ lookup = EmptyLookup /\ ids = <<>>
    \/ \E sheet \in TweetSheets :
          /\ sheet # <<>>
          /\ TwoColumns(sheet)
          /\ lookup = TweetLookup(sheet)
          /\ ids = TweetIds(sheet)

\* C3: the lookup and the id list a get_sheets_data call returns are those of
\* one snapshot.
C3_WholeSnapshot ==
    \A t \in Threads : th[t].pc = "l84" => OneSnapshot(th[t].tweet_lookup, th[t].tweet_ids)

\* C4: a get_sheets_data call whose fetch fails returns the empty lookup and
\* the empty id list to index, and no step of the call up to and including
\* the failure changes _cache or _cache_time.
C4_FailureKeepsSnapshot ==
    [][\A t \in Threads :
          /\ (th[t].pc = "l48" /\ th'[t].how = "failed")
                => /\ th'[t].pc = "l84"
                   /\ th'[t].tweet_lookup = EmptyLookup
                   /\ th'[t].tweet_ids = <<>>
          /\ (th[t].pc \in {"l43", "l43c", "l48"} /\ th'[t] # th[t] /\ th'[t].pc # "l71")
                => /\ cache' = cache
                   /\ cache_time' = cache_time
      ]_vars

\* C4 witness: a call has failed (here on a worksheet of three columns) and
\* the snapshot of an earlier fetch is still stored.
C4_Witness ==
    \E t \in Threads :
        /\ th[t].pc = "l84" /\ th[t].how = "failed" /\ th[t].decided = "stale"
        /\ ~TwoColumns(tweets)
        /\ Truthy(cache) /\ cache_time > 0

\* C5: a presentation request that draws from an id list of two or more
\* items shows two different ids, both of the list.
C5_DistinctPair ==
    \A t \in Threads :
        (th[t].pc = "l91" /\ Len(th[t].tweet_ids) >= 2)
        => /\ th[t].resp.kind = "pair"
           /\ th[t].resp.id1 # th[t].resp.id2
           /\ {th[t].resp.id1, th[t].resp.id2} \subseteq Range(th[t].tweet_ids)

\* C6: a presentation request whose id list has fewer than two items draws
\* nothing and answers with the not-enough-tweets message.
C6_Insufficient ==
    \A t \in Threads :
        (th[t].pc = "l91" /\ Len(th[t].tweet_ids) < 2) => th[t].resp = Insufficient

\* C6 witness: the message after a fetch of one item, and after a failed fetch.
C6_Witness ==
    \E t, u \in Threads :
        /\ th[t].pc = "l91" /\ Len(th[t].tweet_ids) = 1 /\ th[t].resp = Insufficient
        /\ th[u].pc = "l91" /\ th[u].how = "failed" /\ th[u].resp = Insufficient

\* C16: when a get_sheets_data call that found the snapshot stale completes
\* its refresh (line 72), no call in progress found the cache empty and no
\* other call is between its fetch and the end of its refresh, the stored
\* _cache holds what this call fetched and
\* _cache_time is the clock of this call: both are of the refresh that
\* completed last.
C16_LastRefreshWins ==
    [][\A t \in Threads :
          (/\ th[t].pc = "l72" /\ th'[t].pc = "l84"
           /\ th[t].decided = "stale"
           /\ \A u \in Threads : th[u].decided # "empty"
           /\ \A u \in Threads \ {t} : th[u].pc \notin {"l48", "l71", "l72"})
          => /\ cache_time' = now
             /\ cache'.tweet_lookup = th[t].tweet_lookup
             /\ cache'.tweet_ids = th[t].tweet_ids
      ]_vars

\* C17: where requests run one at a time and a snapshot is stored, a
\* get_sheets_data call whose fetch succeeds with no row or one row returns
\* with _cache holding exactly the lookup and the id list it returns
\* (nothing of the earlier snapshot) and with _cache_time set to the clock.
C17_SmallFetchIsSnapshot ==
    [][\A t \in Threads :
          (/\ ~threaded
           /\ Truthy(cache)
           /\ th[t].pc \in {"l48", "l72"} /\ th'[t].pc = "l84"
           /\ th'[t].how \in {"fetched", "nodata"}
           /\ Len(th'[t].tweet_ids) < 2)
          => /\ cache' = MkCache(th'[t].tweet_lookup, th'[t].tweet_ids)
             /\ cache_time' = now
      ]_vars

\* C17, for a fetch of one row, with or without a snapshot stored before.
C17_OneRowIsSnapshot ==
    [][\A t \in Threads :
          (/\ ~threaded
           /\ th[t].pc \in {"l48", "l72"} /\ th'[t].pc = "l84"
           /\ th'[t].how \in {"fetched", "nodata"}
           /\ Len(th'[t].tweet_ids) = 1)
          => /\ cache' = MkCache(th'[t].tweet_lookup, th'[t].tweet_ids)
             /\ cache_time' = now
      ]_vars

\* C19: in every state, _cache is empty or holds a lookup and an id list
\* that are those of one fetch of rows; the keys of the lookup are then the
\* ids of the list.
C19_SnapshotConsistent ==
    Truthy(cache) =>
        /\ DOMAIN cache.tweet_lookup = Range(cache.tweet_ids)
        /\ cache.tweet_ids # <<>>
        /\ OneSnapshot(cache.tweet_lookup, cache.tweet_ids)

\* C19 witness: two refreshes that fetched different rows are both between
\* line 71 and line 72, and _cache holds two ids.
C19_Witness ==
    /\ Truthy(cache)
    /\ Cardinality(DOMAIN cache.tweet_lookup) = 2
    /\ \E t, u \in Threads :
          /\ th[t].pc = "l72" /\ th[u].pc = "l72"
          /\ th[t].tweet_ids # th[u].tweet_ids

----------------------------------------------------------------------------
(* Properties of the vote and tie requests, checked under SpecVotes *)

\* A step that is a vote (or tie) request whose append succeeded.
Appended(op) ==
    /\ last'.op = op
    /\ last'.ok
    /\ last' # last \/ votes' # votes

\* C7: the response of a vote or tie request whose append failed differs from
\* the response of one whose append succeeded.
C7_FailureReported ==
    (last.op \in {"vote", "tie"} /\ ~last.ok) => last.resp # Redirect("ok")

\* C8: a vote request whose append succeeds adds one row at the end of the
\* Votes worksheet, the row is <<winner, loser, winner>>, and its third field
\* is not the loser's id when the two ids differ.
C8_WinRowNamesWinner ==
    [][Appended("vote") =>
          /\ votes' = Append(votes, <<last'.a, last'.b, last'.a>>)
          /\ last'.a # last'.b => votes'[Len(votes')][3] # last'.b
      ]_vars

\* C8 witness: a vote for A over B has been appended.
C8_Witness ==
    /\ last.op = "vote" /\ last.ok /\ last.a = "A" /\ last.b = "B"
    /\ Len(votes) = 2
    /\ votes[2] = <<"A", "B", "A">>

\* C9: a tie request whose append succeeds adds one row <<id1, id2, 'tie'>> at
\* the end of the Votes worksheet, and the third field of the row equals
\* neither id.
C9_TieRowIsSentinel ==
    [][Appended("tie") =>
          /\ votes' = Append(votes, <<last'.a, last'.b, "tie">>)
          /\ votes'[Len(votes')][3] # last'.a
          /\ votes'[Len(votes')][3] # last'.b
      ]_vars

\* C11: when a report has read a log that is some rows in which w is not the
\* result followed by N >= 1 rows appended by vote requests with winner w
\* (w any string of a form field), the report gives w the win count N and
\* the opponent list that holds the losers of those requests in order.
C11_RoundTrip ==
    (last.op = "admin" /\ last.ok) =>
        \A w \in VoteIds : \A k \in 0..Len(votes) :
            (/\ k < Len(votes)
             /\ \A i \in 1..k : votes[i][3] # w
             /\ \A i \in (k + 1)..Len(votes) : votes[i][1] = w /\ votes[i][3] = w)
            => /\ \E j \in DOMAIN last.scores : last.scores[j] = <<w, Len(votes) - k>>
               /\ w \in DOMAIN last.pairwise_wins
               /\ last.pairwise_wins[w] = [n \in 1..(Len(votes) - k) |-> votes[k + n][2]]

\* C11, for a winner id other than 'tie'.
C11_RoundTripNotTie ==
    (last.op = "admin" /\ last.ok) =>
        \A w \in VoteIds \ {"tie"} : \A k \in 0..Len(votes) :
            (/\ k < Len(votes)
             /\ \A i \in 1..k : votes[i][3] # w
             /\ \A i \in (k + 1)..Len(votes) : votes[i][1] = w /\ votes[i][3] = w)
            => /\ \E j \in DOMAIN last.scores : last.scores[j] = <<w, Len(votes) - k>>
               /\ w \in DOMAIN last.pairwise_wins
               /\ last.pairwise_wins[w] = [n \in 1..(Len(votes) - k) |-> votes[k + n][2]]

----------------------------------------------------------------------------
(* Properties of the report, checked under SpecAgg *)

\* The rows of a log that name x as the result and are not ties, by position.
WinIndexes(log, x) == {i \in DOMAIN log : log[i][3] = x /\ log[i][3] # "tie"}

\* The other party of a row whose result is x.
OtherParty(row, x) == IF row[1] = x THEN row[2] ELSE row[1]

\* The other parties of the rows that x won, in log order.
Defeated(log, x) ==
    LET idx == WinIndexes(log, x)
        nth(k) == CHOOSE i \in idx : Cardinality({j \in idx : j <= i}) = k
    IN  [k \in 1..Cardinality(idx) |-> OtherParty(log[nth(k)], x)]

IdsOf(log) == UNION {{log[i][1], log[i][2], log[i][3]} : i \in DOMAIN log}

WellFormed(log) == \A i \in DOMAIN log : log[i][3] \in {log[i][1], log[i][2], "tie"}

\* The report read the Votes worksheet, whose header has the three columns.
Reported == last.op = "admin" /\ last.ok /\ votesCols = AllCols

\* C10: over a log whose rows have a result that is id1, id2 or 'tie', the
\* report gives an item the win count that is the number of its non-tie rows
\* (and lists no item without such a row), and the opponent list that holds
\* the other party of each of those rows in log order; on the log
\* [(A,B,A),(A,C,A),(B,C,tie),(C,A,C)] it gives [(A,2),(C,1)] and
\* {A: [B,C], C: [A]}.
C10_CountsAndOpponents ==
    (Reported /\ WellFormed(votes)) =>
        /\ \A x \in IdsOf(votes) :
              LET n == Cardinality(WinIndexes(votes, x)) IN
              /\ n > 0 => /\ \E i \in DOMAIN last.scores : last.scores[i] = <<x, n>>
                          /\ x \in DOMAIN last.pairwise_wins
                          /\ last.pairwise_wins[x] = Defeated(votes, x)
              /\ n = 0 => /\ \A i \in DOMAIN last.scores : last.scores[i][1] # x
                          /\ x \notin DOMAIN last.pairwise_wins
        /\ \A i \in DOMAIN last.scores : last.scores[i][1] \in IdsOf(votes)
        /\ DOMAIN last.pairwise_wins \subseteq IdsOf(votes)
        /\ votes = ExampleLog =>
              /\ last.scores = <<<<"A", 2>>, <<"C", 1>>>>
              /\ last.pairwise_wins = ("A" :> <<"B", "C">>) @@ ("C" :> <<"A">>)

\* C10 witness: the report over the example log.
C10_Witness ==
    /\ Reported
    /\ votes = ExampleLog
    /\ last.scores = <<<<"A", 2>>, <<"C", 1>>>>

\* The read of the Votes worksheet failed: no client, a call that raised, or
\* rows that lack the id1, id2 or result field.
ReadFailed == ~last.ok \/ votesCols # AllCols

\* C12: a report whose read of the Votes worksheet failed, rows without an
\* id1, id2 or result field included, never gives scores that are not empty
\* together with a pairwise_wins that is empty or partly built: every item
\* of its scores has an opponent list as long as its win count (as the
\* empty scores and empty pairwise_wins that the claim requires would).
C12_NoScoresWithoutOpponents ==
    (last.op = "admin" /\ ReadFailed) =>
        /\ last.resp = "admin.html"
        /\ \A j \in DOMAIN last.scores :
              /\ last.scores[j][1] \in DOMAIN last.pairwise_wins
              /\ Len(last.pairwise_wins[last.scores[j][1]]) = last.scores[j][2]

\* C12, for the failures that come before line 143 has run: no client, a
\* call that raised, or rows without the result field.
C12_EarlyFailureGivesEmptyBoth ==
    (last.op = "admin" /\ (~last.ok \/ "result" \notin votesCols)) =>
        /\ last.scores = <<>>
        /\ last.pairwise_wins = NoPairwise
        /\ last.resp = "admin.html"

\* C13: the scores of a report hold no item twice and are ordered by win
\* count, no count larger than the one before it; when the report has read
\* the result column, the items of its scores are exactly the results of the
\* rows that are not ties.
C13_ScoresOnceAndDescending ==
    last.op = "admin" =>
        /\ \A i, j \in DOMAIN last.scores :
              /\ i < j => last.scores[i][2] >= last.scores[j][2]
              /\ i # j => last.scores[i][1] # last.scores[j][1]
        /\ (last.ok /\ "result" \in votesCols) =>
              {last.scores[i][1] : i \in DOMAIN last.scores}
                 = {x \in IdsOf(votes) : WinIndexes(votes, x) # {}}

\* C13 witness: B won the first row and A the two after it; A is listed
\* first.
C13_Witness ==
    /\ Reported
    /\ Len(votes) = 3
    /\ votes[1][3] = "B"
    /\ last.scores = <<<<"A", 2>>, <<"B", 1>>>>

\* C15: a report that has read a Votes worksheet with no rows below the
\* header gives empty scores and empty pairwise_wins, and answers with the
\* report page.
C15_EmptyLogEmptyReport ==
    (last.op = "admin" /\ last.ok /\ votes = <<>>) =>
        /\ last.scores = <<>>
        /\ last.pairwise_wins = NoPairwise
        /\ last.resp = "admin.html"

\* C15 witness: the report has read an empty worksheet with the full header.
C15_Witness ==
    /\ Reported
    /\ votes = <<>>
    /\ last.scores = <<>>
    /\ last.resp = "admin.html"

\* The sum of the counts of a list of <<item, count>>.
RECURSIVE SumCounts(_)
SumCounts(scores) ==
    IF scores = <<>> THEN 0 ELSE Head(scores)[2] + SumCounts(Tail(scores))

\* C18: in a report over a log whose rows have a result that is id1, id2 or
\* 'tie', the items of scores are the items of pairwise_wins, the opponent
\* list of each item is as long as its win count, and the win counts add up
\* to the number of rows that are not ties.
C18_ScoresMatchPairwise ==
    (Reported /\ WellFormed(votes)) =>
        /\ {last.scores[j][1] : j \in DOMAIN last.scores} = DOMAIN last.pairwise_wins
        /\ \A j \in DOMAIN last.scores :
              Len(last.pairwise_wins[last.scores[j][1]]) = last.scores[j][2]
        /\ SumCounts(last.scores) = Cardinality({i \in DOMAIN votes : votes[i][3] # "tie"})

\* C18 witness: a report over the example log, where A has two wins, C one
\* and one row is a tie.
C18_Witness ==
    /\ Reported
    /\ votes = ExampleLog
    /\ DOMAIN last.pairwise_wins = {"A", "C"}
    /\ SumCounts(last.scores) = 3

----------------------------------------------------------------------------
(* Properties of all requests together, checked under Spec *)

\* C14: no step of a presentation, vote, tie or report request, in any
\* interleaving, removes or changes a row of the Votes worksheet or moves it:
\* the rows before the step are the first rows after it.
C14_LogOnlyGrows ==
    [][/\ Len(votes') >= Len(votes)
       /\ SubSeq(votes', 1, Len(votes)) = votes
      ]_vars

\* C14 witness: a tie and then a vote have been appended and reported while
\* a presentation request is refreshing the cache.
C14_Witness ==
    /\ votes = <<<<"A", "B", "tie">>, <<"A", "B", "A">>>>
    /\ last.op = "admin" /\ last.ok
    /\ \E t \in Threads : th[t].pc = "l72"

\* A step of a presentation request, of a report, of a vote or tie request.
PresentationStep == th' # th
ReportStep == last' # last /\ last'.op = "admin"
VoteOrTieStep == votes' # votes \/ (last' # last /\ last'.op \in {"vote", "tie"})

\* C20, as stated: report and presentation steps leave the Votes worksheet
\* as it is; vote, tie and report steps leave _cache and _cache_time as they
\* are; and a report that follows a report with no vote or tie request
\* between them shows the scores and pairwise_wins the first one showed.
C20_FramesAndSameReport ==
    [][/\ (PresentationStep \/ ReportStep) => votes' = votes /\ votesCols' = votesCols
       /\ (VoteOrTieStep \/ ReportStep) => cache' = cache /\ cache_time' = cache_time
       /\ (last.op = "admin" /\ last'.op = "admin")
             => /\ last'.scores = last.scores
                /\ last'.pairwise_wins = last.pairwise_wins
      ]_vars

\* C20, amended: the same, where the two reports have both read the Votes
\* worksheet.
C20_FramesAndSameReportRead ==
    [][/\ (PresentationStep \/ ReportStep) => votes' = votes /\ votesCols' = votesCols
       /\ (VoteOrTieStep \/ ReportStep) => cache' = cache /\ cache_time' = cache_time
       /\ (last.op = "admin" /\ last.ok /\ last'.op = "admin" /\ last'.ok)
             => /\ last'.scores = last.scores
                /\ last'.pairwise_wins = last.pairwise_wins
      ]_vars

\* C20 witness: a report has shown a win while a snapshot is stored and a
\* presentation request is on its way.
C20_Witness ==
    /\ last.op = "admin" /\ last.ok
    /\ last.scores = <<<<"A", 1>>>>
    /\ Truthy(cache) /\ cache_time > StartTime
    /\ \E t \in Threads : th[t].pc = "l45b"

====
